---- MODULE Spec2Model ----
(***************************************************************************)
(* State-machine model of DaytonaComputer                                  *)
(* (src/computers/daytona/daytona.py): an adapter that owns a remote       *)
(* sandbox and translates generic computer-use actions into remote calls.  *)
(*                                                                         *)
(* Python strings that the code inspects or builds (URLs, key names,       *)
(* hotkeys, base64 payloads) are sequences of one-character strings, so    *)
(* that startswith, lower, join and b64decode are computed, not assumed.   *)
(* Every method is one action.  The body of a method is a sequence of      *)
(* steps (remote call, sleep, assignment to _current_url, raise, decode,   *)
(* return) run by Run; a remote call raises when the environment says so.  *)
(***************************************************************************)
EXTENDS Integers, Sequences, FiniteSets

VARIABLES
    _screen_size,        \* constructor argument (width, height)
    _initial_url,        \* constructor argument
    _search_engine_url,  \* constructor argument
    _daytona,            \* TRUE once the client object has been built
    _sandbox,            \* None, or the id of the sandbox handle held
    _current_url,        \* tracked current URL
    created,             \* provider side: number of sandboxes created (ids 1..created)
    deleted,             \* provider side: ids for which a delete request was issued
    lastOp,              \* the method the caller invoked last, with its arguments
    env,                 \* what the provider did during that method
    out                  \* what that method did: its remote calls in order,
                         \* the time it slept, the exception it raised and
                         \* the EnvState it returned

vars == <<_screen_size, _initial_url, _search_engine_url, _daytona, _sandbox,
          _current_url, created, deleted, lastOp, env, out>>

calls == out.calls      \* remote calls issued by the last method, in order
exc == out.exc          \* exception it raised ("none": it returned normally)
result == out.result    \* EnvState it returned (NoState if it returned none)
slept == out.slept      \* milliseconds it spent in time.sleep

config == <<_screen_size, _initial_url, _search_engine_url>>

---------------------------------------------------------------------------
(* Bounds of the model *)

\* sandboxes the provider hands out before start session is no longer tried
MaxSandboxes == 2

---------------------------------------------------------------------------
(* Program constants *)

DAYTONA_KEY_MAP ==
    [k \in {<<"c","o","n","t","r","o","l">>, <<"c","o","m","m","a","n","d">>, <<"m","e","t","a">>} |->
        CASE k = <<"c","o","n","t","r","o","l">> -> <<"c","t","r","l">>
          [] k = <<"c","o","m","m","a","n","d">> -> <<"c","m","d">>
          [] k = <<"m","e","t","a">>    -> <<"c","m","d">>]

\* time.sleep arguments, in milliseconds
SLEEP_ACTION == 100
SLEEP_SCREENSHOT == 500
SLEEP_NAVIGATION == 1000
SLEEP_WAIT == 5000

DEFAULT_INITIAL_URL == <<"h","t","t","p","s",":","/","/","w","w","w",".","d","u","c","k","d","u","c","k","g","o",".","c","o","m","/">>
DEFAULT_SEARCH_ENGINE_URL == <<"h","t","t","p","s",":","/","/","d","u","c","k","d","u","c","k","g","o",".","c","o","m","/">>

None == 0

---------------------------------------------------------------------------
(* Python string and bytes primitives *)

UpperChars == <<"A","B","C","D","E","F","G","H","I","J","K","L","M","N","O","P","Q","R","S","T","U","V","W","X","Y","Z">>
LowerChars == <<"a","b","c","d","e","f","g","h","i","j","k","l","m","n","o","p","q","r","s","t","u","v","w","x","y","z">>

\* the lowercase form of each uppercase letter
LowerOf ==
    [c \in {UpperChars[i] : i \in 1..26} |->
        LowerChars[CHOOSE i \in 1..26 : UpperChars[i] = c]]

\* str.lower on one character
LowerChar(c) == IF c \in DOMAIN LowerOf THEN LowerOf[c] ELSE c

\* str.lower
Lower(s) == [i \in 1..Len(s) |-> LowerChar(s[i])]

\* str.startswith(prefix)
StartsWith(s, prefix) ==
    /\ Len(s) >= Len(prefix)
    /\ SubSeq(s, 1, Len(prefix)) = prefix

\* sep.join(parts)
RECURSIVE Join(_, _)
Join(sep, parts) ==
    IF Len(parts) = 0 THEN <<>>
    ELSE IF Len(parts) = 1 THEN parts[1]
    ELSE parts[1] \o sep \o Join(sep, Tail(parts))

B64Alphabet ==
    <<"A","B","C","D","E","F","G","H","I","J","K","L","M","N","O","P","Q","R","S","T","U","V","W","X","Y","Z","a","b","c","d","e","f","g","h","i","j","k","l","m","n","o","p","q","r","s","t","u","v","w","x","y","z","0","1","2","3","4","5","6","7","8","9","+","/">>

\* the six-bit value of each character of the alphabet
B64Value ==
    [c \in {B64Alphabet[i] : i \in 1..64} |->
        (CHOOSE i \in 1..64 : B64Alphabet[i] = c) - 1]

B64Index(c) == B64Value[c]

IsB64Char(c) == c \in DOMAIN B64Value

\* the data characters of a payload: base64.b64decode (validate=False)
\* discards everything that is not in the alphabet
B64Data(s) == SelectSeq(s, IsB64Char)

B64Pads(s) == Cardinality({i \in 1..Len(s) : s[i] = "="})

\* binascii.Error ("Incorrect padding") unless the last group is complete
B64Valid(s) ==
    LET r == Len(B64Data(s)) % 4
    IN  \/ r = 0
        \/ r = 2 /\ B64Pads(s) >= 2
        \/ r = 3 /\ B64Pads(s) >= 1

RECURSIVE B64Groups(_)
B64Groups(d) ==
    IF Len(d) = 0 THEN <<>>
    ELSE IF Len(d) >= 4 THEN
        LET n == B64Index(d[1]) * 262144 + B64Index(d[2]) * 4096
                 + B64Index(d[3]) * 64 + B64Index(d[4])
        IN  <<n \div 65536, (n \div 256) % 256, n % 256>>
            \o B64Groups(SubSeq(d, 5, Len(d)))
    ELSE IF Len(d) = 3 THEN
        LET n == B64Index(d[1]) * 262144 + B64Index(d[2]) * 4096
                 + B64Index(d[3]) * 64
        IN  <<n \div 65536, (n \div 256) % 256>>
    ELSE IF Len(d) = 2 THEN
        LET n == B64Index(d[1]) * 262144 + B64Index(d[2]) * 4096
        IN  <<n \div 65536>>
    ELSE <<>>

\* base64.b64decode: payload text to raw bytes
b64decode(s) == B64Groups(B64Data(s))

---------------------------------------------------------------------------
(* Inputs *)

ScreenSizes == {<<8, 6>>}
InitialUrls == {DEFAULT_INITIAL_URL}
SearchEngineUrls == {DEFAULT_SEARCH_ENGINE_URL}

Xs == {1}
Ys == {2}
DestXs == {4}
DestYs == {3}
Texts == {<<"h","i">>}
Directions == {"up", "down", "left", "right", "diagonal"}
Magnitudes == {800}
Urls == {<<"e","x","a","m","p","l","e",".","c","o","m">>, <<"h","t","t","p",":","/","/","x",".","c","o","m">>}
KeyLists ==
    {<<>>, <<<<"E","n","t","e","r">>>>, <<<<"a">>>>, <<<<"c","o","n","t","r","o","l">>>>, <<<<"M","E","T","A">>>>,
     <<<<"c","o","n","t","r","o","l">>, <<"a">>>>, <<<<"C","o","m","m","a","n","d">>, <<"E","n","t","e","r">>>>,
     <<<<"a">>, <<"C","o","n","t","r","o","l">>, <<"M","e","t","a">>>>}

\* what the provider may send back for a screenshot: base64 text
\* "iVBO" is bytes 137 80 78, "/w==" is byte 255, "QUJ" has incorrect padding
Payloads == {<<"i","V","B","O">>, <<"/","w","=","=">>, <<"Q","U","J">>}

\* exceptions a remote call may raise.  The action methods have no handler
\* that tells error classes apart, so one class stands for all of them there;
\* __enter__ and __exit__ have handlers and see both.
RemoteErrors == {"DaytonaError", "ConnectionError"}
ActionErrors == {"DaytonaError"}

---------------------------------------------------------------------------
(* Steps of a method body *)

Step(k, api, x, y, x2, y2, s, opt) ==
    [k |-> k, api |-> api, x |-> x, y |-> y, x2 |-> x2, y2 |-> y2,
     s |-> s, opt |-> opt]

\* a call on self._sandbox.<api>
Call(api, x, y, x2, y2, s, opt) == Step("call", api, x, y, x2, y2, s, opt)
Sleep(ms) == Step("sleep", "time.sleep", 0, 0, 0, 0, <<>>, ms)
SetUrl(url) == Step("set_url", "_current_url", 0, 0, 0, 0, url, 0)
Raise(e) == Step("raise", e, 0, 0, 0, 0, <<>>, 0)
Decode == Step("decode", "base64.b64decode", 0, 0, 0, 0, <<>>, 0)
Return == Step("return", "EnvState", 0, 0, 0, 0, <<>>, 0)

MouseClick(x, y, button) ==
    Call("computer_use.mouse.click", x, y, 0, 0, button, 0)
MouseMove(x, y) == Call("computer_use.mouse.move", x, y, 0, 0, <<>>, 0)
MouseDrag(x, y, dx, dy) == Call("computer_use.mouse.drag", x, y, dx, dy, <<>>, 0)
KeyPress(key) == Call("computer_use.keyboard.press", 0, 0, 0, 0, key, 0)
KeyHotkey(keys) == Call("computer_use.keyboard.hotkey", 0, 0, 0, 0, keys, 0)
KeyType(text, delay) == Call("computer_use.keyboard.type", 0, 0, 0, 0, text, delay)
ProcessExec(cmd, timeout) == Call("process.exec", 0, 0, 0, 0, cmd, timeout)
TakeCompressed ==
    Call("computer_use.screenshot.take_compressed", 0, 0, 0, 0, <<"p","n","g">>, 1)

NumCalls(steps) == Cardinality({i \in 1..Len(steps) : steps[i].k = "call"})

NoState == [screenshot |-> <<>>, url |-> <<>>, fresh |-> FALSE]
EnvState(bytes, url) == [screenshot |-> bytes, url |-> url, fresh |-> TRUE]

NoEnv == [fail_at |-> 0, fail_exc |-> "none", payload |-> <<>>]

\* the provider's possible behaviours during a method that issues up to n
\* remote calls: the i-th call raises e, or none raises and the screenshot
\* call returns payload p
Envs(n) ==
    {[fail_at |-> i, fail_exc |-> e, payload |-> <<>>] :
        i \in 1..n, e \in ActionErrors}
    \cup {[fail_at |-> 0, fail_exc |-> "none", payload |-> p] : p \in Payloads}

\* a remote call as the provider sees it
Logged(s, sb, ok, ret) ==
    [api |-> s.api, sb |-> sb, x |-> s.x, y |-> s.y, x2 |-> s.x2, y2 |-> s.y2,
     s |-> s.s, opt |-> s.opt, ok |-> ok, ret |-> ret]

Start(url) ==
    [calls |-> <<>>, url |-> url, exc |-> "none", slept |-> 0,
     shot |-> <<>>, bytes |-> <<>>, result |-> NoState]

\* run steps i.. of a method body on the held handle sb; stops at the first
\* raise or return
RECURSIVE Run(_, _, _, _, _)
Run(steps, i, sb, e, st) ==
    IF i > Len(steps) THEN st
    ELSE LET s == steps[i] IN
      CASE s.k = "sleep" ->
             Run(steps, i + 1, sb, e, [st EXCEPT !.slept = @ + s.opt])
        [] s.k = "set_url" ->
             Run(steps, i + 1, sb, e, [st EXCEPT !.url = s.s])
        [] s.k = "raise" -> [st EXCEPT !.exc = s.api]
        [] s.k = "call" ->
             IF sb = None
             THEN [st EXCEPT !.exc = "AttributeError"]
             ELSE IF Len(st.calls) + 1 = e.fail_at
             THEN [st EXCEPT !.calls = Append(@, Logged(s, sb, FALSE, <<>>)),
                             !.exc = e.fail_exc]
             ELSE IF s.api = "computer_use.screenshot.take_compressed"
             THEN Run(steps, i + 1, sb, e,
                      [st EXCEPT !.calls = Append(@, Logged(s, sb, TRUE, e.payload)),
                                 !.shot = e.payload])
             ELSE Run(steps, i + 1, sb, e,
                      [st EXCEPT !.calls = Append(@, Logged(s, sb, TRUE, <<>>))])
        [] s.k = "decode" ->
             IF B64Valid(st.shot)
             THEN Run(steps, i + 1, sb, e, [st EXCEPT !.bytes = b64decode(st.shot)])
             ELSE [st EXCEPT !.exc = "binascii.Error"]
        [] s.k = "return" ->
             [st EXCEPT !.result = EnvState(st.bytes, st.url)]

Exec(steps, sb, url, e) == Run(steps, 1, sb, e, Start(url))

---------------------------------------------------------------------------
(* Method bodies *)

current_state == <<Sleep(SLEEP_SCREENSHOT), TakeCompressed, Decode, Return>>

\* click_at that captures the screen before it clicks
click_at_capture_first(x, y) ==
    <<Sleep(SLEEP_SCREENSHOT), TakeCompressed, Decode,
      MouseClick(x, y, <<"l","e","f","t">>), Sleep(SLEEP_ACTION), Return>>

click_at(x, y) ==
    <<MouseClick(x, y, <<"l","e","f","t">>), Sleep(SLEEP_ACTION)>> \o current_state


open_web_browser(initial_url) ==
    LET cmd == <<"s","h"," ","-","c"," ","'","D","I","S","P","L","A","Y","=",":","0"," ","x","d","g","-","o","p","e","n"," ">> \o <<"\"">> \o initial_url
               \o <<"\"">> \o <<" ",">"," ","/","d","e","v","/","n","u","l","l"," ","2",">","&","1"," ","&","'">>
    IN  <<ProcessExec(cmd, 1), Sleep(SLEEP_NAVIGATION), SetUrl(initial_url)>>
        \o current_state

hover_at(x, y) == <<MouseMove(x, y), Sleep(SLEEP_ACTION)>> \o current_state

type_text_at(x, y, text, press_enter, clear_before_typing) ==
    <<MouseClick(x, y, <<"l","e","f","t">>), Sleep(SLEEP_ACTION)>>
    \o (IF clear_before_typing
        THEN <<KeyPress(<<"c","t","r","l","+","a">>), Sleep(SLEEP_ACTION)>>
        ELSE <<>>)
    \o <<KeyType(text, 50)>>
    \o (IF press_enter
        THEN <<KeyPress(<<"e","n","t","e","r">>), Sleep(SLEEP_NAVIGATION)>>
        ELSE <<Sleep(SLEEP_ACTION)>>)
    \o current_state

scroll_at(x, y, direction, magnitude) ==
    <<MouseClick(x, y, <<>>), Sleep(SLEEP_ACTION)>>
    \o (CASE direction = "down"  -> <<KeyPress(<<"p","a","g","e","d","o","w","n">>)>>
          [] direction = "up"    -> <<KeyPress(<<"p","a","g","e","u","p">>)>>
          [] direction = "right" -> <<KeyPress(<<"s","p","a","c","e">>)>>
          [] direction = "left"  -> <<KeyHotkey(<<"s","h","i","f","t","+","s","p","a","c","e">>)>>
          [] OTHER               -> <<Raise("ValueError")>>)
    \o <<Sleep(SLEEP_ACTION)>> \o current_state

\* scroll_document that takes both centre coordinates from the width
scroll_document_width_only(screen_size, direction) ==
    CASE direction = "down" ->
           <<KeyPress(<<"p","a","g","e","d","o","w","n">>), Sleep(SLEEP_ACTION)>> \o current_state
      [] direction = "up" ->
           <<KeyPress(<<"p","a","g","e","u","p">>), Sleep(SLEEP_ACTION)>> \o current_state
      [] direction \in {"left", "right"} ->
           LET scroll_amount == screen_size[1] \div 2
               center_x == screen_size[1] \div 2
               center_y == screen_size[1] \div 2
           IN  scroll_at(center_x, center_y, direction, scroll_amount)
      [] OTHER -> <<Raise("ValueError")>>

scroll_document(screen_size, direction) ==
    CASE direction = "down" ->
           <<KeyPress(<<"p","a","g","e","d","o","w","n">>), Sleep(SLEEP_ACTION)>> \o current_state
      [] direction = "up" ->
           <<KeyPress(<<"p","a","g","e","u","p">>), Sleep(SLEEP_ACTION)>> \o current_state
      [] direction \in {"left", "right"} ->
           LET scroll_amount == screen_size[1] \div 2
               center_x == screen_size[1] \div 2
               center_y == screen_size[2] \div 2
           IN  scroll_at(center_x, center_y, direction, scroll_amount)
      [] OTHER -> <<Raise("ValueError")>>

wait_5_seconds == <<Sleep(SLEEP_WAIT)>> \o current_state

\* go_back that forgets the tracked URL because it cannot observe the new one
go_back_forgets_url ==
    <<KeyHotkey(<<"a","l","t","+","l","e","f","t">>), Sleep(SLEEP_NAVIGATION), SetUrl(<<>>)>>
    \o current_state

go_back ==
    <<KeyHotkey(<<"a","l","t","+","l","e","f","t">>), Sleep(SLEEP_NAVIGATION)>> \o current_state

go_forward ==
    <<KeyHotkey(<<"a","l","t","+","r","i","g","h","t">>), Sleep(SLEEP_NAVIGATION)>> \o current_state

\* a scheme test that knows https:// only
NormalizeUrlHttpsOnly(url) ==
    IF ~StartsWith(url, <<"h","t","t","p","s",":","/","/">>) THEN <<"h","t","t","p","s",":","/","/">> \o url ELSE url

\* lines 206-208 of navigate
NormalizeUrl(url) ==
    IF ~(StartsWith(url, <<"h","t","t","p",":","/","/">>) \/ StartsWith(url, <<"h","t","t","p","s",":","/","/">>))
    THEN <<"h","t","t","p","s",":","/","/">> \o url
    ELSE url

navigate(url) ==
    LET normalized_url == NormalizeUrl(url)
    IN  <<SetUrl(normalized_url),
          KeyPress(<<"f","6">>), Sleep(SLEEP_ACTION),
          KeyType(normalized_url, 0), Sleep(SLEEP_ACTION),
          KeyPress(<<"e","n","t","e","r">>), Sleep(SLEEP_NAVIGATION)>>
        \o current_state

search(search_engine_url) == navigate(search_engine_url)

\* DAYTONA_KEY_MAP.get(k.lower(), k.lower()): the default is lowercased too
NormalizeKeyLowerDefault(k) ==
    IF Lower(k) \in DOMAIN DAYTONA_KEY_MAP
    THEN DAYTONA_KEY_MAP[Lower(k)] ELSE Lower(k)

\* DAYTONA_KEY_MAP.get(k.lower(), k)
NormalizeKey(k) ==
    IF Lower(k) \in DOMAIN DAYTONA_KEY_MAP THEN DAYTONA_KEY_MAP[Lower(k)] ELSE k

key_combination(keys) ==
    LET normalized_keys == [i \in 1..Len(keys) |-> NormalizeKey(keys[i])]
    IN  IF Len(normalized_keys) = 1
        THEN <<KeyPress(normalized_keys[1]), Sleep(SLEEP_ACTION)>>
             \o current_state
        ELSE LET hotkey_str == Join(<<"+">>, normalized_keys)
             IN  <<KeyHotkey(hotkey_str), Sleep(SLEEP_ACTION)>>
                 \o current_state

drag_and_drop(x, y, destination_x, destination_y) ==
    <<MouseDrag(x, y, destination_x, destination_y), Sleep(SLEEP_ACTION)>>
    \o current_state

---------------------------------------------------------------------------
(* The caller's side: which method was invoked, with which arguments *)

NoArgs ==
    [name |-> "__init__", x |-> 0, y |-> 0, x2 |-> 0, y2 |-> 0,
     text |-> <<>>, keys |-> <<>>, direction |-> "", magnitude |-> 0,
     press_enter |-> FALSE, clear_before_typing |-> FALSE]

\* one invocation of an action method whose body is steps
Do(op, steps) ==
    \E plan \in {steps} : \E e \in Envs(NumCalls(plan)) :
        /\ lastOp' = op
        /\ env' = e
        /\ out' = Exec(plan, _sandbox, _current_url, e)
        /\ _current_url' = out'.url
        /\ UNCHANGED <<config, _daytona, _sandbox, created, deleted>>

---------------------------------------------------------------------------
(* Initial state: __init__ *)

Init ==
    /\ _screen_size \in ScreenSizes
    /\ _initial_url \in InitialUrls
    /\ _search_engine_url \in SearchEngineUrls
    /\ _daytona = FALSE
    /\ _sandbox = None
    /\ _current_url = _initial_url
    /\ created = 0
    /\ deleted = {}
    /\ lastOp = NoArgs
    /\ env = NoEnv
    /\ out = Start(_initial_url)

---------------------------------------------------------------------------
(* Actions: one per method *)

Create == Call("daytona.create", 0, 0, 0, 0, <<>>, 0)
ComputerUseStart == Call("computer_use.start", 0, 0, 0, 0, <<>>, 0)
Delete == Call("delete", 0, 0, 0, 0, <<>>, 0)

\* provider behaviours during a method that returns no screenshot
EnvsNoShot(n) ==
    {[fail_at |-> i, fail_exc |-> e, payload |-> <<>>] :
        i \in 1..n, e \in RemoteErrors} \cup {NoEnv}

\* __enter__
Enter ==
    /\ created < MaxSandboxes
    /\ \E e \in EnvsNoShot(2) :
        /\ lastOp' = [NoArgs EXCEPT !.name = "__enter__"]
        /\ env' = e
        /\ _daytona' = TRUE
        /\ IF e.fail_at = 1
           THEN \* self._daytona.create raises: nothing is assigned
                /\ out' = [Start(_current_url) EXCEPT
                             !.calls = <<Logged(Create, None, FALSE, <<>>)>>,
                             !.exc = e.fail_exc]
                /\ UNCHANGED <<_sandbox, created>>
           ELSE LET id == created + 1 IN
                /\ created' = id
                /\ _sandbox' = id
                /\ IF e.fail_at = 2
                   THEN \* computer_use.start raises: the handle stays assigned
                        out' = [Start(_current_url) EXCEPT
                                 !.calls = <<Logged(Create, id, TRUE, <<>>),
                                             Logged(ComputerUseStart, id, FALSE, <<>>)>>,
                                 !.exc = e.fail_exc]
                   ELSE out' = [Start(_current_url) EXCEPT
                                 !.calls = <<Logged(Create, id, TRUE, <<>>),
                                             Logged(ComputerUseStart, id, TRUE, <<>>)>>]
        /\ UNCHANGED <<config, _current_url, deleted>>

\* "except DaytonaError": the provider's own error class only
OnlyDaytonaErrors == {"DaytonaError"}

\* classes caught by "except Exception"
ExceptionSubclasses == {"DaytonaError", "ConnectionError", "ValueError",
                        "AttributeError", "binascii.Error"}

\* __exit__
Exit ==
    \E e \in EnvsNoShot(IF _sandbox # None THEN 1 ELSE 0) :
        /\ lastOp' = [NoArgs EXCEPT !.name = "__exit__"]
        /\ env' = e
        /\ IF _sandbox # None
           THEN /\ out' = [Start(_current_url) EXCEPT
                             !.calls = <<Logged(Delete, _sandbox, e.fail_at # 1, <<>>)>>,
                             !.exc = IF e.fail_at = 1
                                        /\ e.fail_exc \notin ExceptionSubclasses
                                     THEN e.fail_exc ELSE "none"]
                /\ deleted' = deleted \cup {_sandbox}
           ELSE /\ out' = Start(_current_url)
                /\ deleted' = deleted
        /\ UNCHANGED <<config, _daytona, _sandbox, _current_url, created>>

OpenWebBrowser ==
    Do([NoArgs EXCEPT !.name = "open_web_browser"],
       open_web_browser(_initial_url))

ClickAt ==
    \E x \in Xs, y \in Ys :
        Do([NoArgs EXCEPT !.name = "click_at", !.x = x, !.y = y],
           click_at(x, y))

HoverAt ==
    \E x \in Xs, y \in Ys :
        Do([NoArgs EXCEPT !.name = "hover_at", !.x = x, !.y = y],
           hover_at(x, y))

TypeTextAt ==
    \E x \in Xs, y \in Ys, text \in Texts,
       press_enter \in BOOLEAN, clear_before_typing \in BOOLEAN :
        Do([NoArgs EXCEPT !.name = "type_text_at", !.x = x, !.y = y,
                          !.text = text, !.press_enter = press_enter,
                          !.clear_before_typing = clear_before_typing],
           type_text_at(x, y, text, press_enter, clear_before_typing))

ScrollDocument ==
    \E direction \in Directions :
        Do([NoArgs EXCEPT !.name = "scroll_document", !.direction = direction],
           scroll_document(_screen_size, direction))

ScrollAt ==
    \E x \in Xs, y \in Ys, direction \in Directions,
       magnitude \in Magnitudes :
        Do([NoArgs EXCEPT !.name = "scroll_at", !.x = x, !.y = y,
                          !.direction = direction, !.magnitude = magnitude],
           scroll_at(x, y, direction, magnitude))

Wait5Seconds == Do([NoArgs EXCEPT !.name = "wait_5_seconds"], wait_5_seconds)

GoBack == Do([NoArgs EXCEPT !.name = "go_back"], go_back)

GoForward == Do([NoArgs EXCEPT !.name = "go_forward"], go_forward)

Search == Do([NoArgs EXCEPT !.name = "search"], search(_search_engine_url))

Navigate ==
    \E url \in Urls :
        Do([NoArgs EXCEPT !.name = "navigate", !.text = url], navigate(url))

KeyCombination ==
    \E keys \in KeyLists :
        Do([NoArgs EXCEPT !.name = "key_combination", !.keys = keys],
           key_combination(keys))

DragAndDrop ==
    \E x \in Xs, y \in Ys, dx \in DestXs, dy \in DestYs :
        Do([NoArgs EXCEPT !.name = "drag_and_drop", !.x = x, !.y = y,
                          !.x2 = dx, !.y2 = dy],
           drag_and_drop(x, y, dx, dy))

CurrentState == Do([NoArgs EXCEPT !.name = "current_state"], current_state)

Next ==
    \/ Enter
    \/ Exit
    \/ OpenWebBrowser
    \/ ClickAt
    \/ HoverAt
    \/ TypeTextAt
    \/ ScrollDocument
    \/ ScrollAt
    \/ Wait5Seconds
    \/ GoBack
    \/ GoForward
    \/ Search
    \/ Navigate
    \/ KeyCombination
    \/ DragAndDrop
    \/ CurrentState

Spec == Init /\ [][Next]_vars

---------------------------------------------------------------------------
(* Vocabulary of the properties *)

ActionOps ==
    {"open_web_browser", "click_at", "hover_at", "type_text_at",
     "scroll_document", "scroll_at", "wait_5_seconds", "go_back",
     "go_forward", "search", "navigate", "key_combination", "drag_and_drop",
     "current_state"}

Supported == {"up", "down", "left", "right"}

\* sandboxes the provider created and was never asked to delete
Running == (1..created) \ deleted

\* positions in the call log of the calls to one remote operation
CallsTo(log, api) == {i \in 1..Len(log) : log[i].api = api}

\* s has one of the two schemes the specification names
HasScheme(s) ==
    \E p \in {<<"h","t","t","p",":","/","/">>, <<"h","t","t","p","s",":","/","/">>} :
        /\ Len(s) >= Len(p)
        /\ \A i \in 1..Len(p) : s[i] = p[i]

\* the normalized form of a URL, as the specification words it
Normalized(url) == IF HasScheme(url) THEN url ELSE <<"h","t","t","p","s",":","/","/">> \o url

\* the translation of a key name, as the specification words it
Translated(k) ==
    IF Lower(k) = <<"c","o","n","t","r","o","l">> THEN <<"c","t","r","l">>
    ELSE IF Lower(k) \in {<<"c","o","m","m","a","n","d">>, <<"m","e","t","a">>} THEN <<"c","m","d">>
    ELSE k

---------------------------------------------------------------------------
(* C1 *)

\* C1: when __enter__ raises, whether at sandbox creation or at the start of
\* the input-capture subsystem, the adapter holds no handle afterwards (so a
\* following __exit__ issues no delete) and the sandbox that call created,
\* if any, is not left running.
C1_FailedStartLeavesNothing ==
    (lastOp.name = "__enter__" /\ exc # "none") =>
        /\ _sandbox = None
        /\ \A i \in 1..Len(calls) :
               (calls[i].api = "daytona.create" /\ calls[i].ok) =>
                   calls[i].sb \notin Running

---------------------------------------------------------------------------
(* C2 *)

\* C2: __exit__ never raises: with no handle held it issues no remote call,
\* with a handle held it issues exactly one delete, on that handle, and
\* returns normally whether the delete succeeds or raises.
C2_ExitNeverRaises ==
    [][lastOp'.name = "__exit__" =>
        /\ exc' = "none"
        /\ IF _sandbox = None
           THEN calls' = <<>>
           ELSE /\ Len(calls') = 1
                /\ calls'[1].api = "delete"
                /\ calls'[1].sb = _sandbox]_vars

\* __exit__ has returned normally although its delete call raised
C2_Witness ==
    /\ lastOp.name = "__exit__"
    /\ Len(calls) = 1
    /\ calls[1].api = "delete"
    /\ ~calls[1].ok
    /\ env.fail_exc = "ConnectionError"
    /\ exc = "none"

---------------------------------------------------------------------------
(* C3 *)

\* C3: in a session, scroll_document and scroll_at called with a direction
\* other than up, down, left, right raise ValueError and have issued no
\* remote call before they raise.
C3_UnsupportedDirectionNoCalls ==
    (/\ lastOp.name \in {"scroll_document", "scroll_at"}
     /\ lastOp.direction \notin Supported
     /\ _sandbox # None) =>
        /\ exc = "ValueError"
        /\ calls = <<>>

---------------------------------------------------------------------------
(* C4 *)

\* C4: at most one sandbox that the adapter created has not been the
\* subject of a delete request.
C4_AtMostOneSandbox == Cardinality(Running) <= 1

---------------------------------------------------------------------------
(* C5 *)

\* C5: __exit__ leaves the adapter without a handle, and any method other
\* than __enter__ issues remote calls only on a sandbox that is held and
\* has not been the subject of a delete request (so a second __exit__
\* deletes nothing and no action reaches an ended sandbox).
C5_EndSessionDeactivates ==
    [][/\ lastOp'.name = "__exit__" => _sandbox' = None
       /\ (lastOp'.name # "__enter__" /\ calls' # <<>>) =>
              (_sandbox # None /\ _sandbox \notin deleted)]_vars

---------------------------------------------------------------------------
(* C6 *)

\* C6: the tracked URL starts as the initial URL; navigate and search set it
\* to the URL they go to, open_web_browser sets it to the initial URL once
\* its remote command has been issued, every other method leaves it as it
\* was (go_back and go_forward included), and every EnvState returned
\* carries the tracked URL.
C6_UrlTracksLastNavigation ==
    [][/\ lastOp.name = "__init__" => _current_url = _initial_url
       /\ result'.fresh => result'.url = _current_url'
       /\ CASE lastOp'.name = "navigate" ->
                 _current_url' = Normalized(lastOp'.text)
            [] lastOp'.name = "search" ->
                 _current_url' = Normalized(_search_engine_url)
            [] lastOp'.name = "open_web_browser" ->
                 _current_url' = IF calls' # <<>> /\ calls'[1].ok
                                 THEN _initial_url ELSE _current_url
            [] OTHER -> _current_url' = _current_url]_vars

\* go_back has returned the URL of an earlier navigate
C6_Witness ==
    /\ lastOp.name = "go_back"
    /\ exc = "none"
    /\ result.fresh
    /\ result.url = <<"h","t","t","p","s",":","/","/","e","x","a","m","p","l","e",".","c","o","m">>
    /\ result.url # _initial_url

---------------------------------------------------------------------------
(* C7 *)

\* the remote calls of navigate to the normalized URL u, in order
NavigateCalls(u) ==
    <<[api |-> "computer_use.keyboard.press", s |-> <<"f","6">>],
      [api |-> "computer_use.keyboard.type", s |-> u],
      [api |-> "computer_use.keyboard.press", s |-> <<"e","n","t","e","r">>],
      [api |-> "computer_use.screenshot.take_compressed", s |-> <<"p","n","g">>]>>

\* C7: after navigate(url), however it ended, the tracked URL is url with
\* "https://" prepended unless url starts with "http://" or "https://"; the
\* remote calls it issued are the first ones of: press f6, type that URL,
\* press enter, capture; search does what navigate(search-engine URL) does.
C7_NavigateNormalizes ==
    LET url == IF lastOp.name = "search" THEN _search_engine_url
               ELSE lastOp.text
    IN  lastOp.name \in {"navigate", "search"} =>
        /\ _current_url = Normalized(url)
        /\ url = <<"e","x","a","m","p","l","e",".","c","o","m">> => _current_url = <<"h","t","t","p","s",":","/","/","e","x","a","m","p","l","e",".","c","o","m">>
        /\ url = <<"h","t","t","p",":","/","/","x",".","c","o","m">> => _current_url = <<"h","t","t","p",":","/","/","x",".","c","o","m">>
        /\ Len(calls) <= 4
        /\ \A i \in 1..Len(calls) :
               /\ calls[i].api = NavigateCalls(Normalized(url))[i].api
               /\ calls[i].s = NavigateCalls(Normalized(url))[i].s
        /\ (_sandbox # None /\ env.fail_at = 0) => Len(calls) = 4
        /\ lastOp.name = "search" =>
               out = Exec(navigate(_search_engine_url), _sandbox,
                          _current_url, env)

\* navigate("example.com") has typed the URL, a later remote call has
\* raised, and the tracked URL is the normalized one
C7_Witness ==
    /\ lastOp.name = "navigate"
    /\ lastOp.text = <<"e","x","a","m","p","l","e",".","c","o","m">>
    /\ exc = "DaytonaError"
    /\ Len(calls) = 3
    /\ calls[2].s = <<"h","t","t","p","s",":","/","/","e","x","a","m","p","l","e",".","c","o","m">>
    /\ _current_url = <<"h","t","t","p","s",":","/","/","e","x","a","m","p","l","e",".","c","o","m">>

---------------------------------------------------------------------------
(* C8 *)

\* C8: scroll_document left and right do what scroll_at does at the centre
\* of the screen with magnitude width/2: the same remote calls with the
\* same outcome and the same EnvState; up and down issue one key press,
\* pageup or pagedown, and then the capture, and never a mouse click.
C8_ScrollDocument ==
    lastOp.name = "scroll_document" =>
        /\ lastOp.direction \in {"left", "right"} =>
               out = Exec(scroll_at(_screen_size[1] \div 2,
                                    _screen_size[2] \div 2,
                                    lastOp.direction,
                                    _screen_size[1] \div 2),
                          _sandbox, _current_url, env)
        /\ lastOp.direction \in {"up", "down"} =>
               /\ CallsTo(calls, "computer_use.mouse.click") = {}
               /\ CallsTo(calls, "computer_use.keyboard.hotkey") = {}
               /\ _sandbox # None =>
                      /\ CallsTo(calls, "computer_use.keyboard.press") = {1}
                      /\ calls[1].s = IF lastOp.direction = "up"
                                      THEN <<"p","a","g","e","u","p">> ELSE <<"p","a","g","e","d","o","w","n">>
               /\ exc = "none" =>
                      /\ Len(calls) = 2
                      /\ calls[2].api = "computer_use.screenshot.take_compressed"

\* scroll_document("left") has completed: click at the centre, shift+space,
\* capture
C8_Witness ==
    /\ lastOp.name = "scroll_document"
    /\ lastOp.direction = "left"
    /\ exc = "none"
    /\ Len(calls) = 3
    /\ calls[1].api = "computer_use.mouse.click"
    /\ calls[1].x = 4 /\ calls[1].y = 3
    /\ calls[2].s = <<"s","h","i","f","t","+","s","p","a","c","e">>

---------------------------------------------------------------------------
(* C9 *)

\* C9: the key-name mapping is control->ctrl, command->cmd, meta->cmd; in a
\* session, key_combination of one key issues one keyboard.press of the
\* translated key and no hotkey, and of two or more keys issues one
\* keyboard.hotkey of the translated keys joined by "+" in the given order
\* and no press; a name whose lowercase form is not in the mapping is
\* passed with its case unchanged.
C9_KeyCombination ==
    /\ DAYTONA_KEY_MAP = [k \in {<<"c","o","n","t","r","o","l">>, <<"c","o","m","m","a","n","d">>, <<"m","e","t","a">>} |->
                             IF k = <<"c","o","n","t","r","o","l">> THEN <<"c","t","r","l">> ELSE <<"c","m","d">>]
    /\ (lastOp.name = "key_combination" /\ _sandbox # None) =>
         LET keys == lastOp.keys
             translated == [i \in 1..Len(keys) |-> Translated(keys[i])]
             presses == CallsTo(calls, "computer_use.keyboard.press")
             hotkeys == CallsTo(calls, "computer_use.keyboard.hotkey")
         IN  /\ Len(keys) = 1 =>
                    /\ presses = {1} /\ hotkeys = {}
                    /\ calls[1].s = translated[1]
             /\ Len(keys) >= 2 =>
                    /\ presses = {} /\ hotkeys = {1}
                    /\ calls[1].s = Join(<<"+">>, translated)
             /\ keys = <<<<"E","n","t","e","r">>>> => calls[1].s = <<"E","n","t","e","r">>
             /\ keys = <<<<"c","o","n","t","r","o","l">>, <<"a">>>> => calls[1].s = <<"c","t","r","l","+","a">>

\* key_combination(["Command", "Enter"]) has completed with one hotkey
C9_Witness ==
    /\ lastOp.name = "key_combination"
    /\ lastOp.keys = <<<<"C","o","m","m","a","n","d">>, <<"E","n","t","e","r">>>>
    /\ exc = "none"
    /\ calls[1].api = "computer_use.keyboard.hotkey"
    /\ calls[1].s = <<"c","m","d","+","E","n","t","e","r">>

---------------------------------------------------------------------------
(* C10 *)

\* C10: an action method that returns normally has issued exactly one
\* screenshot capture, as its last remote call, and the EnvState it returns
\* holds the decoded bytes of that capture and the tracked URL.
C10_FreshCaptureLast ==
    (lastOp.name \in ActionOps /\ exc = "none") =>
        LET shots == CallsTo(calls, "computer_use.screenshot.take_compressed")
        IN  /\ shots = {Len(calls)}
            /\ Len(calls) >= 1
            /\ calls[Len(calls)].ok
            /\ result.fresh
            /\ result.screenshot = b64decode(calls[Len(calls)].ret)
            /\ calls[Len(calls)].ret = <<"i","V","B","O">> => result.screenshot = <<137, 80, 78>>
            /\ calls[Len(calls)].ret = <<"/","w","=","=">> => result.screenshot = <<255>>
            /\ result.url = _current_url

\* type_text_at with clear and enter has completed: five remote calls, the
\* capture last, its bytes returned
C10_Witness ==
    /\ lastOp.name = "type_text_at"
    /\ exc = "none"
    /\ Len(calls) = 5
    /\ calls[5].api = "computer_use.screenshot.take_compressed"
    /\ calls[5].ret = <<"/","w","=","=">>
    /\ result.screenshot = <<255>>

====
